---- MODULE Spec2Model ----
(***************************************************************************)
(* Rolling log-file writer of fileserver-go (package lumberjack).          *)
(*                                                                         *)
(* One Logger, its directory of backup files and the destination symbolic  *)
(* link, driven by concurrent callers of Write, Rotate and Close.          *)
(* Callers are anonymous: a call in progress is a record of the sequence   *)
(* calls, and any number of threads may be waiting to make the next one.   *)
(*                                                                         *)
(* Abstractions, all stated here once:                                     *)
(*  - time is counted in whole minutes; processName only compares the      *)
(*    clock with minute-aligned boundaries, and a reading strictly between *)
(*    two minute marks yields the bucket of one of its two neighbours;     *)
(*  - a backup file name <stem>-<timestamp>[_<n>]<ext> is the record       *)
(*    [stamp, idx]: stamp is the minute the timestamp formats (the format  *)
(*    20060102_150405 is injective on minute-aligned times), idx = 1 is    *)
(*    the name without the _<n> part;                                      *)
(*  - the clock is read once per call, in its first step;                  *)
(*  - a call takes the lock and runs its body in one step for Rotate and   *)
(*    Close and in two steps (open, then write) for Write; the deferred    *)
(*    Unlock and the return are one more step;                             *)
(*  - at most one filesystem call fails per call of a method, named by the *)
(*    place of the call; the buffered write and the flush fail only in   *)
(*    SpecIO, where the file takes a prefix of the bytes;                  *)
(*  - SpecReliable is the Logger on a filesystem where no call fails, with *)
(*    the history of the calls that have returned; SpecConfigured is the   *)
(*    same Logger for every configured window, SpecLive the Logger whose   *)
(*    calls are scheduled fairly;                                          *)
(*  - the destination path is given from the root, outside SpecPaths,      *)
(*    which follows the names openNew makes for every kind of path;        *)
(*  - SpecAuth is the other part of the program that is modelled: the      *)
(*    loaded list of credentials (package configurationmanager) and the    *)
(*    handlers ValidateMiddleware builds (package api).  A string is a     *)
(*    sequence of characters and its MD5 digest is the string with a mark  *)
(*    in front, which no password has.  GetHTTPConfig reads the list       *)
(*    without the mutex; a read is one step, before or after the           *)
(*    assignment of a Load.  Of AppConfig and HTTPConfig the model keeps   *)
(*    LogLevel, FilelogDestination, Address, FileServerDirectory and       *)
(*    Authen; a key of type string that is missing is the empty string,    *)
(*    which Load treats alike.  Load assigns cm.appConfig and then         *)
(*    cm.httpConfig: these are two steps, and the getters, which do not    *)
(*    take the mutex, may run between them.                                *)
(***************************************************************************)
EXTENDS Integers, Sequences, FiniteSets, TLC

(***************************************************************************)
(* Configuration and bounds                                                *)
(***************************************************************************)

\* Logger.MaxSize, in units of megabyte
MaxSize == 3

\* Logger.RotationTime, in minutes
RotationTime == 2

\* number of minutes in a day (scaled down from 1440)
MinutesPerDay == 12

\* first and last clock reading of a run
StartClock == 9

MaxClock == 12

\* number of calls made in a run
MaxCalls == 3

\* the size of the buffer of bufio.NewWriter (4096 in the Go library)
defaultBufSize == 2

\* the counter at which a bounded search over the names with a counter stops
SearchLimit == 2

\* the greatest number of directories in a destination path
MaxDepth == 2

\* the greatest number of entries of basic_authen in a configuration file
MaxAuthen == 2

\* the conversion factor between MaxSize and bytes, as the tests set it
megabyte == 1

defaultMaxSize == 100

defaultRotationTime == 5

\* byte of the content of files that exist before the Logger starts
OldByte == "o"

\* the nil error
Nil == "nil"

\* t.Format(timeFormat): the date and the time of day
timeFormat_noDate(t) == <<0, t % MinutesPerDay>>

timeFormat(t) == <<t \div MinutesPerDay, t % MinutesPerDay>>

Name(stamp, idx) == [stamp |-> stamp, idx |-> idx]

\* l.file == nil
NoFile == Name(<<-1, 0>>, 0)

\* nothing at the destination path; a regular file at the destination path
NoEntry == Name(<<-1, 0>>, 1)

RegularFile == Name(<<-1, 0>>, 2)

\* p of length n made of byte b
Fill(n, b) == [i \in 1..n |-> b]

Letters == <<"a", "b", "c", "d", "e", "f">>

\* the byte slices handed to Write: two of one byte, and one each of the
\* lengths just below, at and just above the maximum, each of its own byte
Payloads ==
    {Fill(1, "y"), Fill(1, "z")}
        \cup {Fill(n, Letters[n]) : n \in (MaxSize * megabyte - 1)..(MaxSize * megabyte + 1)}

(***************************************************************************)
(* Variables                                                               *)
(***************************************************************************)

VARIABLES
    files,      \* directory content: backup file name -> bytes
    dest,       \* entry at the destination path: NoEntry, RegularFile or link target
    dirOk,      \* the directory of the destination path exists
    file,       \* l.file: NoFile or the name of the file the handle is open on
    size,       \* l.size
    nopen,      \* number of handles the Logger opened and has not closed
    clock,      \* currentTime(), in minutes
    mu,         \* l.mu: TRUE when locked
    calls,      \* the calls in progress: position, method, argument, results
    pre,        \* the Logger and directory as they were when the lock was taken
    ncalls,     \* calls made so far
    appended,   \* the Writes so far, while they are appends within one bucket
    last,       \* under SpecTimed: clock reading and target of the latest
                \* successful Write
    hist,       \* under SpecReliable: the calls that have returned, in order
    l_RotationTime, \* l.RotationTime, the configured window in minutes
    l_Filename,     \* l.Filename, the destination path
    link,           \* under SpecPaths: the text of the symbolic link openNew
                    \* has made at the destination path
    cm_Authen,      \* cm.httpConfig.Authen, the loaded list of credentials
    cm_appConfig,   \* cm.appConfig
    cm_httpConfig,  \* cm.httpConfig, but for Authen
    tmp,            \* tmp.httpConfig of the Load that holds cm.mutex and has
                    \* assigned cm.appConfig, NoTmp when there is none
    loadErr,        \* what the last Load returned
    handlers,       \* the handlers ValidateMiddleware has returned
    resp            \* the last request served: the request, whether the
                    \* loaded list had entries and one that matches it at
                    \* that time, the status, whether next was invoked

vars == <<files, dest, dirOk, file, size, nopen, clock, mu, calls,
          pre, ncalls, appended, last, hist, l_RotationTime, l_Filename, link,
          cm_Authen, cm_appConfig, cm_httpConfig,
                tmp, loadErr, handlers, resp>>

(***************************************************************************)
(* Logger helpers                                                          *)
(***************************************************************************)

get_max_size ==
    IF MaxSize <= 0 THEN defaultMaxSize * megabyte ELSE MaxSize * megabyte

\* get_rotation_time without the default
get_rotation_time_asConfigured == l_RotationTime

get_rotation_time ==
    IF l_RotationTime <= 0 THEN defaultRotationTime ELSE l_RotationTime

\* time.Date(year, month, day, 0, 0, 0, 0, loc) of the day of t
base_datetime(t) == t - (t % MinutesPerDay)

\* the loop "for rotation_datetime.Add(window).Before(t)"
RECURSIVE rotation_loop(_, _)
rotation_loop(rd, t) ==
    IF rd + get_rotation_time < t
    THEN rotation_loop(rd + get_rotation_time, t)
    ELSE rd

rotation_datetime(t) ==
    IF get_rotation_time > 0 THEN rotation_loop(base_datetime(t), t) ELSE t

\* the timestamp part of the names processName builds at time t
timestamp(t) == timeFormat(rotation_datetime(t))

\* the filesystem calls that can fail, by the place of the call
NoFault == "none"

Faults ==
    {NoFault,
     "mkdir",          \* os.MkdirAll in openNew
     "stat_name",      \* os_Stat of the candidate name in processName
     "stat_alt",       \* os_Stat of an alternate name in processName
     "stat_new",       \* os_Stat in openNew
     "open_existing",  \* os.OpenFile(O_APPEND) in openNew
     "open_create",    \* os.OpenFile(O_CREATE|O_TRUNC) in openNew
     "remove",         \* os.Remove of the destination entry
     "symlink",        \* os.Symlink
     "stat_target",    \* os_Stat in openExistingOrNew
     "open_append",    \* os.OpenFile(O_APPEND) in openExistingOrNew
     "close"}          \* l.file.Close()

\* the faults that Close can meet
CloseFaults == {NoFault, "close"}

\* info.Size() on the nil FileInfo of a failed os_Stat
Panic == "panic: nil pointer dereference"

PanicName == Name(<<-1, 0>>, 3)

\* os_Stat: err == nil
Exists(fs, name) == name \in DOMAIN fs

\* info.Size()
FileSize(fs, name) == Len(fs[name])

\* the search with an upper bound on the counter, past which it gives no name
RECURSIVE nameSearch_bounded(_, _, _, _, _)
nameSearch_bounded(fs, stamp, counter, write_length, F) ==
    LET name == Name(stamp, counter) IN
    IF F = "stat_alt" \/ counter > SearchLimit THEN PanicName
    ELSE IF ~Exists(fs, name) THEN name
    ELSE IF FileSize(fs, name) + write_length > get_max_size
         THEN nameSearch_bounded(fs, stamp, counter + 1, write_length, F)
         ELSE name

\* the search over <stem>-<timestamp>_<counter><ext>
RECURSIVE nameSearch(_, _, _, _, _)
nameSearch(fs, stamp, counter, write_length, F) ==
    LET name == Name(stamp, counter) IN
    IF F = "stat_alt" THEN PanicName
    ELSE IF ~Exists(fs, name) THEN name
    ELSE IF FileSize(fs, name) + write_length > get_max_size
         THEN nameSearch(fs, stamp, counter + 1, write_length, F)
         ELSE name

\* processName that passes over every file that exists
processName_skipExisting(fs, now, write_length, F) ==
    LET name == Name(timestamp(now), 1) IN
    IF F = "stat_name" THEN PanicName
    ELSE IF Exists(fs, name)
         THEN nameSearch(fs, timestamp(now), 2, get_max_size + 1, F)
         ELSE name

processName(fs, now, write_length, F) ==
    LET name == Name(timestamp(now), 1) IN
    IF F = "stat_name" THEN PanicName
    ELSE IF Exists(fs, name) /\ FileSize(fs, name) + write_length > get_max_size
         THEN nameSearch(fs, timestamp(now), 2, write_length, F)
         ELSE name

(***************************************************************************)
(* Paths: [abs, dir, file] is the path made of the directory names dir,    *)
(* from the root when abs and from the working directory otherwise, and of *)
(* the last element file.                                                  *)
(***************************************************************************)

Path(abs, dir, f) == [abs |-> abs, dir |-> dir, file |-> f]

\* l.Filename left empty, and the name get_filename then makes in os.TempDir()
NoFilename == Path(FALSE, <<>>, "")

TempName == Path(TRUE, <<"tmp">>, "prog-lumberjack.log")

get_filename == IF l_Filename = NoFilename THEN TempName ELSE l_Filename

\* filepath.Dir(p) and filepath.Join(d, f), d a path without last element
Dir(p) == [abs |-> p.abs, dir |-> p.dir]

Join(d, f) == Path(d.abs, d.dir, f)

\* the path part of processName: the name is put in the directory of the
\* destination path
processNamePath(now) == Join(Dir(get_filename), Name(timestamp(now), 1))

\* the file a symbolic link at path at with text target resolves to: a
\* relative text is taken from the directory of the link
Resolve(at, target) ==
    IF target.abs THEN target
    ELSE Path(at.abs, at.dir \o target.dir, target.file)

NoLink == Path(FALSE, <<>>, NoFile)

(***************************************************************************)
(* Logger methods as functions of the state                                *)
(*   s = [files, dest, dirOk, file, size, nopen, err]                      *)
(* F is the filesystem call that fails while the method runs.              *)
(***************************************************************************)

Cur == [files |-> files, dest |-> dest, dirOk |-> dirOk, file |-> file,
        size |-> size, nopen |-> nopen, err |-> Nil]

Failed(s, e) == [s EXCEPT !.err = e]

\* close that leaves l.file set
close_keepsHandle(s, F) ==
    IF s.file = NoFile THEN Failed(s, Nil)
    ELSE [s EXCEPT !.nopen = @ - 1,
                   !.err = IF F = "close" THEN "close failed" ELSE Nil]

\* close without the test of l.file: Close of a nil *os.File is an error
close_unchecked(s, F) ==
    [s EXCEPT !.file = NoFile,
              !.nopen = IF s.file = NoFile THEN @ ELSE @ - 1,
              !.err = IF s.file = NoFile THEN "invalid argument"
                      ELSE IF F = "close" THEN "close failed" ELSE Nil]

close(s, F) ==
    IF s.file = NoFile THEN Failed(s, Nil)
    ELSE [s EXCEPT !.file = NoFile,
                   !.nopen = @ - 1,
                   !.err = IF F = "close" THEN "close failed" ELSE Nil]

\* the directory after name is opened with O_CREATE|O_WRONLY|O_TRUNC
Created(fs, name) == (name :> <<>>) @@ fs

\* relink that removes the old entry only once the new link can be made
relink_keepsOldEntry(s, name, F) ==
    IF s.dest # NoEntry /\ F = "remove" THEN Failed(s, "can't unlink")
    ELSE IF F = "symlink"
         THEN Failed(s, "can't create symbolic link to new logfile")
         ELSE [s EXCEPT !.dest = name,
                        !.file = name,
                        !.size = FileSize(s.files, name),
                        !.err  = Nil]

\* openNew once f is open on name: the destination entry is replaced and
\* the handle and the size are assigned
relink(s, name, F) ==
    IF s.dest # NoEntry /\ F = "remove" THEN Failed(s, "can't unlink")
    ELSE IF F = "symlink"
         THEN [s EXCEPT !.dest = NoEntry,
                        !.err = "can't create symbolic link to new logfile"]
         ELSE [s EXCEPT !.dest = name,
                        !.file = name,
                        !.size = FileSize(s.files, name),
                        !.err  = Nil]

openNew(s, now, F) ==
    IF F = "mkdir" THEN Failed(s, "can't make directories for new logfile")
    ELSE
    LET d    == [s EXCEPT !.dirOk = TRUE]
        name == processName(s.files, now, 0, F)
    IN  IF name = PanicName THEN Failed(d, Panic)
        ELSE IF Exists(s.files, name) /\ F # "stat_new"
        THEN IF F = "open_existing"
             THEN Failed(d, "can't open existing logfile")
             ELSE relink([d EXCEPT !.nopen = @ + 1], name, F)
        ELSE IF F = "open_create"
             THEN Failed(d, "can't open new logfile")
             ELSE relink([d EXCEPT !.files = Created(s.files, name),
                                   !.nopen = @ + 1], name, F)

rotate(s, now, F) ==
    LET c == close(s, F) IN
    IF c.err # Nil THEN c ELSE openNew(c, now, F)

\* openExistingOrNew that starts the size counter of an appended file at 0
openExistingOrNew_sizeReset(s, now, writeLen, F) ==
    LET name == processName(s.files, now, writeLen, F) IN
    IF name = PanicName THEN Failed(s, Panic)
    ELSE IF F # "stat_target" /\ ~Exists(s.files, name) THEN openNew(s, now, F)
    ELSE IF F = "stat_target" THEN Failed(s, "error getting log file info")
    ELSE IF FileSize(s.files, name) + writeLen >= get_max_size
         THEN rotate(s, now, F)
    ELSE IF F = "open_append" THEN openNew(s, now, F)
    ELSE [s EXCEPT !.file  = name,
                   !.size  = 0,
                   !.nopen = @ + 1,
                   !.err   = Nil]

openExistingOrNew(s, now, writeLen, F) ==
    LET name == processName(s.files, now, writeLen, F) IN
    IF name = PanicName THEN Failed(s, Panic)
    ELSE IF F # "stat_target" /\ ~Exists(s.files, name) THEN openNew(s, now, F)
    ELSE IF F = "stat_target" THEN Failed(s, "error getting log file info")
    ELSE IF FileSize(s.files, name) + writeLen >= get_max_size
         THEN rotate(s, now, F)
    ELSE IF F = "open_append" THEN openNew(s, now, F)
    ELSE [s EXCEPT !.file  = name,
                   !.size  = FileSize(s.files, name),
                   !.nopen = @ + 1,
                   !.err   = Nil]

\* a write through a handle opened without O_APPEND: at offset 0
WriteAtStart(content, p) ==
    IF Len(p) >= Len(content) THEN p
    ELSE p \o SubSeq(content, Len(p) + 1, Len(content))

\* bytes of a file opened with O_APPEND after p is written to it
AppendWrite(content, p) == content \o p

SizeExceeded == "write length exceeds maximum file size"

\* Write without the test of the length of p
writeOpen_unchecked(s, now, p, F) ==
    LET o == openExistingOrNew(s, now, Len(p), F) IN
    IF o.err # Nil THEN o
    ELSE IF o.size + Len(p) > get_max_size THEN rotate(o, now, F) ELSE o

\* Write, from its first line to the rotation that precedes the write
writeOpen(s, now, p, F) ==
    LET writeLen == Len(p) IN
    IF writeLen > get_max_size
    THEN Failed(s, SizeExceeded)
    ELSE LET o == openExistingOrNew(s, now, writeLen, F) IN
         IF o.err # Nil THEN o
         ELSE IF o.size + writeLen > get_max_size THEN rotate(o, now, F) ELSE o

\* the bytes written and not counted
writeBytes_uncounted(s, p) ==
    [s EXCEPT !.files = [@ EXCEPT ![s.file] = AppendWrite(@, p)]]

\* Write, from bufio.NewWriter to the return
writeBytes(s, p) ==
    [s EXCEPT !.files = [@ EXCEPT ![s.file] = AppendWrite(@, p)],
              !.size  = @ + Len(p)]

\* Write, from bufio.NewWriter to the return, when the file takes only the
\* first k bytes of p: bytes that fit the buffer are accepted by w.Write and
\* reach the file in w.Flush, whose error is dropped; more bytes than the
\* buffer holds are written to the file by w.Write itself
writeBytesIO(s, p, k) ==
    LET n   == IF Len(p) > defaultBufSize THEN k ELSE Len(p)
        err == IF Len(p) > defaultBufSize /\ k < Len(p) THEN "short write" ELSE Nil
    IN [s EXCEPT !.files = [@ EXCEPT ![s.file] = AppendWrite(@, SubSeq(p, 1, k))],
                 !.size  = @ + n,
                 !.err   = err]

(***************************************************************************)
(* Initial states                                                          *)
(***************************************************************************)

NoFiles == <<>>

\* the file of the bucket of the first clock reading, and of the bucket before
FirstName == Name(timestamp(StartClock), 1)

OlderName == Name(timeFormat(rotation_datetime(StartClock) - get_rotation_time), 1)

\* what the Logger can find: no directory, a directory with another file at
\* the destination path, a backup file left empty and without the destination
\* link, or backup files written before the Logger started, with or without
\* the destination link
InitDirs ==
    {[dirOk |-> FALSE, files |-> NoFiles, dest |-> NoEntry],
     [dirOk |-> TRUE,  files |-> NoFiles, dest |-> RegularFile],
     [dirOk |-> TRUE,  files |-> (FirstName :> <<>>), dest |-> NoEntry],
     [dirOk |-> TRUE,  files |-> (FirstName :> <<OldByte>>), dest |-> NoEntry],
     [dirOk |-> TRUE,
      files |-> (OlderName :> <<OldByte, OldByte>>) @@ (FirstName :> <<OldByte>>),
      dest |-> OlderName]}

\* a call of method o with argument p at position at; e and now are the
\* error and the clock reading of its first step
Call(o, p, at, e, now) ==
    [pc |-> at, op |-> o, arg |-> p, n |-> 0, err |-> e, name |-> NoFile,
     time |-> now]

NoTime == -1

NoPre == [files |-> NoFiles, dest |-> NoEntry, dirOk |-> FALSE, file |-> NoFile,
          size |-> 0, nopen |-> 0, err |-> "unlocked"]

Off == [on |-> FALSE, n |-> 0, bytes |-> <<>>]

On(k, b) == [on |-> TRUE, n |-> k, bytes |-> b]

NoLast == [time |-> NoTime, name |-> NoFile]

(***************************************************************************)
(* Configuration manager and authentication middleware                     *)
(***************************************************************************)

\* utilities.StringToMD5String: the digest in hexadecimal
StringToMD5String(text) == <<"md5">> \o text

Usernames == {<<"u">>, <<"v">>}

Passwords == {<<"a">>, <<"b">>}

\* BasicAuthen: an entry of basic_authen, its password a digest or, by
\* mistake, the password itself
BasicAuthen ==
    [Username : Usernames,
     Password : {StringToMD5String(<<"a">>), <<"a">>}]

AuthenLists == UNION {[1..n -> BasicAuthen] : n \in 0..MaxAuthen}

\* the step of Load that fails
ErrRead == "ReadInConfig"

ErrApp == "[app] part of config file is not valid"

ErrHTTP == "[http] part of config file is not valid"

ErrDir == "file server directory is empty"

LoadErrors == {ErrRead, ErrApp, ErrHTTP, ErrDir}

\* logger.FATAL, logger.INFO and logger.DEBUG
FATAL == 0

INFO == 3

DEBUG == 4

DefaultAddress == <<":", "9", "0", "0", "0">>

\* strings.TrimSpace
RECURSIVE TrimLeft(_)
TrimLeft(str) ==
    IF str # <<>> /\ Head(str) = " " THEN TrimLeft(Tail(str)) ELSE str

RECURSIVE TrimRight(_)
TrimRight(str) ==
    IF str # <<>> /\ str[Len(str)] = " "
    THEN TrimRight(SubSeq(str, 1, Len(str) - 1))
    ELSE str

TrimSpace(str) == TrimRight(TrimLeft(str))

\* what Load finds in the configuration file: the step that fails for the
\* file as a whole (fails), the keys of [app] and the keys of [http]; a
\* level is <<>> when its key is missing
ConfigFilesOf(Apps, HTTPs) ==
    [fails : {Nil, ErrRead, ErrApp, ErrHTTP}, app : Apps, http : HTTPs]

AppParts ==
    [log_level : {<<>>, <<FATAL>>, <<DEBUG + 1>>},
     filelog_destination : {<<>>, <<" ", "l">>}]

HTTPParts(Lists) ==
    [address : {<<>>, <<"a", " ">>},
     file_server_directory : {<<" ">>, <<" ", "d">>, <<"e">>},
     basic_authen : Lists]

\* the files of a server whose list of credentials is reloaded
ConfigFiles ==
    ConfigFilesOf({[log_level |-> <<>>, filelog_destination |-> <<>>]},
                  [address : {<<>>}, file_server_directory : {<<"d">>},
                   basic_authen : AuthenLists])

\* the files of a server whose whole configuration is reloaded
LoadFiles ==
    ConfigFilesOf(AppParts,
                  HTTPParts({<<>>, <<[Username |-> <<"u">>,
                                      Password |-> StringToMD5String(<<"a">>)]>>}))

\* the zero values of AppConfig and HTTPConfig
NoAppConfig == [LogLevel |-> 0, FilelogDestination |-> <<>>]

NoHTTPConfig == [Address |-> <<>>, FileServerDirectory |-> <<>>]

NoTmp == [Address |-> <<>>, FileServerDirectory |-> <<>>, Authen |-> <<>>,
          held |-> FALSE]

\* the error Load returns for file f, its checks taken in their order
loadError(f) ==
    IF f.fails # Nil THEN f.fails
    ELSE IF TrimSpace(f.http.file_server_directory) = <<>> THEN ErrDir
    ELSE Nil

\* tmp.appConfig and tmp.httpConfig once Load has put the defaults
tmp_appConfig(f) ==
    [LogLevel |->
        IF f.app.log_level = <<>> THEN INFO
        ELSE IF f.app.log_level[1] < FATAL \/ f.app.log_level[1] > DEBUG
             THEN INFO
             ELSE f.app.log_level[1],
     FilelogDestination |-> f.app.filelog_destination]

tmp_httpConfig(f) ==
    [Address |-> IF TrimSpace(f.http.address) = <<>> THEN DefaultAddress
                 ELSE f.http.address,
     FileServerDirectory |-> f.http.file_server_directory,
     Authen |-> f.http.basic_authen,
     held |-> TRUE]

\* a Load that assigned cm.appConfig before it had checked [http]
load_assignsEarly(app, f) ==
    LET e == loadError(f) IN
    [err |-> e,
     appConfig |->
        IF e \in {ErrRead, ErrApp} THEN app
        ELSE [tmp_appConfig(f) EXCEPT
                 !.FilelogDestination = TrimSpace(@)],
     tmp |-> IF e # Nil THEN NoTmp ELSE tmp_httpConfig(f)]

\* Load up to the assignment of cm.appConfig: what it returns if it
\* returns here, cm.appConfig, and the tmp.httpConfig still to be assigned
load(app, f) ==
    LET e == loadError(f) IN
    [err |-> e,
     appConfig |->
        IF e # Nil THEN app
        ELSE [tmp_appConfig(f) EXCEPT
                 !.FilelogDestination = TrimSpace(@)],
     tmp |-> IF e # Nil THEN NoTmp ELSE tmp_httpConfig(f)]

\* the getters
GetAppConfig == cm_appConfig

GetHTTPConfig ==
    [Address |-> cm_httpConfig.Address,
     FileServerDirectory |-> cm_httpConfig.FileServerDirectory,
     Authen |-> cm_Authen]

\* a request: whether it carries Basic credentials (r.BasicAuth), and them
NoCredentials == [ok |-> FALSE, username |-> <<>>, password |-> <<>>]

Requests ==
    {NoCredentials} \cup
    [ok : {TRUE}, username : Usernames, password : Passwords]

StatusOK == 200

StatusUnauthorized == 401

NoResp ==
    [req |-> NoCredentials, listed |-> FALSE, matched |-> FALSE,
     status |-> 0, next |-> FALSE]

\* the ConfigurationManager of New, before its first Load; no handler built
InitAuth ==
    /\ cm_Authen = <<>>
    /\ cm_appConfig = NoAppConfig
    /\ cm_httpConfig = NoHTTPConfig
    /\ tmp = NoTmp
    /\ loadErr = Nil
    /\ handlers = {}
    /\ resp = NoResp

\* authen(username, password), reading the list that is loaded now
authen(username, password) ==
    \/ Len(cm_Authen) = 0
    \/ \E i \in DOMAIN cm_Authen :
          /\ cm_Authen[i].Username = username
          /\ cm_Authen[i].Password = StringToMD5String(password)

\* the entries of list l that the credentials of request r match
Matching(l, r) ==
    {i \in DOMAIN l : /\ l[i].Username = r.username
                      /\ l[i].Password = StringToMD5String(r.password)}

\* the handler ValidateMiddleware returns: the one that bypasses the
\* authentication when the list it reads is empty, else the one that checks
ValidateMiddleware_handler == [bypass |-> Len(cm_Authen) = 0]

\* what a handler h does with request r: the status, and whether it
\* invokes next (which answers the request itself)
ServeHTTP_handler(h, r) ==
    IF h.bypass THEN [status |-> StatusOK, next |-> TRUE]
    ELSE IF r.ok
         THEN IF ~authen(r.username, r.password)
              THEN [status |-> StatusUnauthorized, next |-> FALSE]
              ELSE [status |-> StatusOK, next |-> TRUE]
         ELSE [status |-> StatusUnauthorized, next |-> FALSE]

\* a destination path given from the root
AbsoluteName == Path(TRUE, <<"var", "log">>, "app.log")

\* the Logger before its first call, its window configured from Windows and
\* the clock at one of Times
InitWith(Windows, Times) ==
    /\ l_RotationTime \in Windows
    /\ l_Filename = AbsoluteName
    /\ link = NoLink
    /\ InitAuth
    /\ \E d \in InitDirs :
         /\ files = d.files
         /\ dest = d.dest
         /\ dirOk = d.dirOk
         /\ appended = IF d.files = NoFiles THEN On(0, <<>>) ELSE Off
    /\ file = NoFile
    /\ size = 0
    /\ nopen = 0
    /\ clock \in Times
    /\ mu = FALSE
    /\ calls = <<>>
    /\ pre = NoPre
    /\ ncalls = 0
    /\ last = NoLast
    /\ hist = <<>>

Init == InitWith({RotationTime}, {StartClock})

(***************************************************************************)
(* Actions                                                                 *)
(***************************************************************************)

Set(s) ==
    /\ files' = s.files
    /\ dest' = s.dest
    /\ dirOk' = s.dirOk
    /\ file' = s.file
    /\ size' = s.size
    /\ nopen' = s.nopen

Same == UNCHANGED <<files, dest, dirOk, file, size, nopen>>

\* the configuration is not changed by any call (nor is the text of the
\* link, which only SpecPaths follows)
Configured ==
    UNCHANGED <<l_RotationTime, l_Filename, link,
                cm_Authen, cm_appConfig, cm_httpConfig,
                tmp, loadErr, handlers, resp>>

\* l.mu.Lock() always returns at once
TryLock_racy(m) == TRUE

\* l.mu.Lock() returns: the mutex is not locked
TryLock(m) == m = FALSE

\* a thread calls a method: the lock is taken
Enter ==
    /\ ncalls < MaxCalls
    /\ TryLock(mu)
    /\ mu' = TRUE
    /\ pre' = Cur
    /\ ncalls' = ncalls + 1
    /\ Configured

\* l.Write(p) up to the point where the file to write to is open, on a
\* filesystem whose calls fail as FS allows
WriteOpenOn(FS) ==
    \E p \in Payloads, F \in FS :
       LET s == writeOpen(Cur, clock, p, F) IN
         /\ Enter
         /\ Set(s)
         /\ IF s.err # Nil
            THEN /\ calls' = Append(calls, Call("Write", p, "unlock", s.err, NoTime))
                 /\ appended' = Off
            ELSE /\ calls' = Append(calls, Call("Write", p, "write", Nil, clock))
                 /\ appended' =
                        IF /\ appended.on
                           /\ timestamp(clock) = timestamp(StartClock)
                           /\ Len(appended.bytes) + Len(p) < get_max_size
                        THEN appended
                        ELSE Off
         /\ UNCHANGED <<clock, last, hist>>

WriteOpen == WriteOpenOn(Faults)

\* l.Write(p): the bytes are written and counted
WriteBytes(i) ==
    /\ calls[i].pc = "write"
    /\ Set(writeBytes(Cur, calls[i].arg))
    /\ calls' = [calls EXCEPT ![i] = [@ EXCEPT !.pc = "unlock",
                                               !.n = Len(calls[i].arg),
                                               !.name = file]]
    /\ appended' = IF appended.on
                   THEN On(appended.n + 1, appended.bytes \o calls[i].arg)
                   ELSE Off
    /\ Configured
    /\ UNCHANGED <<clock, mu, pre, ncalls, last, hist>>

\* l.Rotate()
RotateOn(FS) ==
    \E F \in FS :
       LET s == rotate(Cur, clock, F) IN
         /\ Enter
         /\ Set(s)
         /\ calls' = Append(calls, Call("Rotate", <<>>, "unlock", s.err, clock))
         /\ appended' = Off
         /\ UNCHANGED <<clock, last, hist>>

Rotate == RotateOn(Faults)

\* l.Close()
CloseOn(FS) ==
    \E F \in FS :
       LET s == close(Cur, F) IN
         /\ Enter
         /\ Set(s)
         /\ calls' = Append(calls, Call("Close", <<>>, "unlock", s.err, NoTime))
         /\ appended' = Off
         /\ UNCHANGED <<clock, last, hist>>

Close == CloseOn(CloseFaults)

\* calls without call i
Others(i) == [j \in 1..(Len(calls) - 1) |-> IF j < i THEN calls[j] ELSE calls[j + 1]]

\* a return that leaves the mutex locked
Return_keepsLock(i) ==
    /\ calls[i].pc = "unlock"
    /\ mu' = mu
    /\ pre' = NoPre
    /\ calls' = Others(i)
    /\ Same
    /\ Configured
    /\ UNCHANGED <<clock, ncalls, appended>>

\* the deferred l.mu.Unlock() and the return to the caller
Return(i) ==
    /\ calls[i].pc = "unlock"
    /\ mu' = FALSE
    /\ pre' = NoPre
    /\ calls' = Others(i)
    /\ Same
    /\ Configured
    /\ UNCHANGED <<clock, ncalls, appended>>

Unlock(i) == Return(i) /\ UNCHANGED <<last, hist>>

\* Unlock, with the clock reading and the target of a successful Write kept
UnlockTimed(i) ==
    /\ Return(i)
    /\ last' = IF calls[i].op = "Write" /\ calls[i].err = Nil
               THEN [time |-> calls[i].time, name |-> calls[i].name]
               ELSE last
    /\ UNCHANGED hist

\* what is kept of a call that has returned: its method, argument, count,
\* error, clock reading and file, the bytes that file held when the call
\* began, and whether the call created the file
Logged(c) ==
    [op |-> c.op, arg |-> c.arg, err |-> c.err, time |-> c.time, name |-> c.name,
     was |-> IF c.name \in DOMAIN pre.files THEN pre.files[c.name] ELSE <<>>,
     new |-> c.name # NoFile /\ c.name \notin DOMAIN pre.files,
     n   |-> c.n]

\* Unlock, with the call added to the history
UnlockLogged(i) ==
    /\ Return(i)
    /\ hist' = Append(hist, Logged(calls[i]))
    /\ UNCHANGED last

\* a minute passes
Tick ==
    /\ clock < MaxClock
    /\ clock' = clock + 1
    /\ Same
    /\ Configured
    /\ UNCHANGED <<mu, calls, pre, ncalls, appended, last, hist>>

Next ==
    \/ WriteOpen
    \/ \E i \in DOMAIN calls : WriteBytes(i)
    \/ Rotate
    \/ Close
    \/ \E i \in DOMAIN calls : Unlock(i)
    \/ Tick

Spec == Init /\ [][Next]_vars

\* the destination paths a Logger is configured with: none, and paths from
\* the root or from the working directory with up to MaxDepth directories
DirNames == {"var", "log"}

Dirs == UNION {[1..n -> DirNames] : n \in 0..MaxDepth}

Filenames ==
    {NoFilename} \cup {Path(a, d, "app.log") : a \in BOOLEAN, d \in Dirs}

InitPaths ==
    /\ l_Filename \in Filenames
    /\ link = NoLink
    /\ InitAuth
    /\ l_RotationTime = RotationTime
    /\ files = NoFiles /\ dest = NoEntry /\ dirOk = FALSE
    /\ appended = Off
    /\ file = NoFile /\ size = 0 /\ nopen = 0
    /\ clock = StartClock
    /\ mu = FALSE /\ calls = <<>> /\ pre = NoPre /\ ncalls = 0
    /\ last = NoLast /\ hist = <<>>

\* the names openNew works with: os.Symlink(name, l.get_filename())
OpenNewPaths ==
    /\ link' = processNamePath(clock)
    /\ Same
    /\ UNCHANGED <<clock, mu, calls, pre, ncalls, appended, last, hist,
                   l_RotationTime, l_Filename,
                   cm_Authen, cm_appConfig, cm_httpConfig,
                tmp, loadErr, handlers, resp>>

NextPaths == OpenNewPaths \/ Tick

SpecPaths == InitPaths /\ [][NextPaths]_vars

\* the Logger is not touched by the configuration manager and the handlers
LoggerIdle ==
    UNCHANGED <<files, dest, dirOk, file, size, nopen, clock, mu, calls,
                pre, ncalls, appended, last, hist,
                l_RotationTime, l_Filename, link>>

\* cm.Load(configurationFile) up to the assignment of cm.appConfig: it
\* takes cm.mutex and returns here when a step fails
Load(c) ==
    /\ ~tmp.held
    /\ loadErr' = load(cm_appConfig, c).err
    /\ cm_appConfig' = load(cm_appConfig, c).appConfig
    /\ tmp' = load(cm_appConfig, c).tmp
    /\ UNCHANGED <<cm_Authen, cm_httpConfig, handlers, resp>>
    /\ LoggerIdle

\* the rest of a Load that succeeds: the assignment of cm.httpConfig, and
\* the return
LoadHTTP ==
    /\ tmp.held
    /\ cm_httpConfig' =
          [Address |-> TrimSpace(tmp.Address),
           FileServerDirectory |-> TrimSpace(tmp.FileServerDirectory)]
    /\ cm_Authen' = tmp.Authen
    /\ tmp' = NoTmp
    /\ UNCHANGED <<cm_appConfig, loadErr, handlers, resp>>
    /\ LoggerIdle

\* ValidateMiddleware(next)
ValidateMiddleware ==
    /\ handlers' = handlers \cup {ValidateMiddleware_handler}
    /\ UNCHANGED <<cm_Authen, cm_appConfig, cm_httpConfig, tmp, loadErr, resp>>
    /\ LoggerIdle

\* a request served by a handler that has been built
ServeHTTP(h, r) ==
    /\ h \in handlers
    /\ resp' = [req |-> r, listed |-> Len(cm_Authen) > 0,
                matched |-> r.ok /\ Matching(cm_Authen, r) # {},
                status |-> ServeHTTP_handler(h, r).status,
                next |-> ServeHTTP_handler(h, r).next]
    /\ UNCHANGED <<cm_Authen, cm_appConfig, cm_httpConfig, tmp,
                   loadErr, handlers>>
    /\ LoggerIdle

NextAuth ==
    \/ \E c \in ConfigFiles : Load(c)
    \/ LoadHTTP
    \/ ValidateMiddleware
    \/ \E h \in handlers, r \in Requests : ServeHTTP(h, r)

\* the server before its Logger has made the directory of the log
InitServer == Init /\ files = NoFiles /\ ~dirOk

SpecAuth == InitServer /\ [][NextAuth]_vars

\* the configuration manager alone, reloading files of every kind
NextLoad ==
    \/ \E c \in LoadFiles : Load(c)
    \/ LoadHTTP

SpecLoad == InitServer /\ [][NextLoad]_vars

\* the program with the clock stopped at its first or last reading; the thread
\* that holds the lock keeps running: the second step of its Write and its
\* return are taken when they can be
NextLive ==
    \/ WriteOpen
    \/ \E i \in DOMAIN calls : WriteBytes(i)
    \/ Rotate
    \/ Close
    \/ \E i \in DOMAIN calls : Unlock(i)

SpecLive ==
    /\ InitWith({RotationTime}, {StartClock, MaxClock})
    /\ [][NextLive]_vars
    /\ WF_vars(\E i \in DOMAIN calls : WriteBytes(i))
    /\ WF_vars(\E i \in DOMAIN calls : Unlock(i))

\* the same program, observed with the history of Write targets
NextTimed ==
    \/ WriteOpen
    \/ \E i \in DOMAIN calls : WriteBytes(i)
    \/ Rotate
    \/ Close
    \/ \E i \in DOMAIN calls : UnlockTimed(i)
    \/ Tick

SpecTimed == Init /\ [][NextTimed]_vars

\* the program on a filesystem none of whose calls fails, observed with the
\* history of its calls
WriteOpenReliable == WriteOpenOn({NoFault})

RotateReliable == RotateOn({NoFault})

CloseReliable == CloseOn({NoFault})

NextReliable ==
    \/ WriteOpenReliable
    \/ \E i \in DOMAIN calls : WriteBytes(i)
    \/ RotateReliable
    \/ CloseReliable
    \/ \E i \in DOMAIN calls : UnlockLogged(i)
    \/ Tick

SpecReliable == Init /\ [][NextReliable]_vars

\* the second step of l.Write(p) when the file takes k bytes
WriteBytesIO(i) ==
    /\ calls[i].pc = "write"
    /\ \E k \in 0..Len(calls[i].arg) :
         LET s == writeBytesIO(Cur, calls[i].arg, k) IN
           /\ Set(s)
           /\ calls' = [calls EXCEPT ![i] = [@ EXCEPT !.pc = "unlock",
                                                      !.n = s.size - size,
                                                      !.err = s.err,
                                                      !.name = file]]
           /\ appended' = IF appended.on /\ k = Len(calls[i].arg)
                          THEN On(appended.n + 1, appended.bytes \o calls[i].arg)
                          ELSE Off
    /\ Configured
    /\ UNCHANGED <<clock, mu, pre, ncalls, last, hist>>

\* the Logger on a filesystem where only the writing of bytes fails
NextIO ==
    \/ WriteOpenReliable
    \/ \E i \in DOMAIN calls : WriteBytesIO(i)
    \/ RotateReliable
    \/ CloseReliable
    \/ \E i \in DOMAIN calls : Unlock(i)
    \/ Tick

SpecIO == Init /\ [][NextIO]_vars

\* the windows a Logger is configured with: negative, zero (the field left
\* unset) and positive ones
ConfiguredWindows == (-1)..RotationTime

\* the Logger under each of these configurations, on a filesystem none of
\* whose calls fails
NextConfigured ==
    \/ WriteOpenReliable
    \/ \E i \in DOMAIN calls : WriteBytes(i)
    \/ RotateReliable
    \/ \E i \in DOMAIN calls : Unlock(i)
    \/ Tick

SpecConfigured == InitWith(ConfiguredWindows, {StartClock}) /\ [][NextConfigured]_vars

(***************************************************************************)
(* Properties                                                              *)
(***************************************************************************)

\* the calls that have run method o to its return statement
Returned(o) == {c \in {calls[i] : i \in DOMAIN calls} : c.pc = "unlock" /\ c.op = o}

\* those of them that return a nil error
Succeeded(o) == {c \in Returned(o) : c.err = Nil}

\* the minute a timestamp denotes
StampTime(stamp) == stamp[1] * MinutesPerDay + stamp[2]

\* content holds a byte written by this Logger
LoggerBytes(content) == \E i \in 1..Len(content) : content[i] # OldByte

\* the rotation bucket of time t: the greatest midnight + k * window <= t
Bucket(t) ==
    base_datetime(t) + ((t - base_datetime(t)) \div get_rotation_time) * get_rotation_time

\* the bytes of file f when the lock was taken
Before(f) == IF f \in DOMAIN pre.files THEN pre.files[f] ELSE <<>>

\* C1: a Write that would make the size of the current backup file reach or
\* exceed the maximum rotates once: the previous file keeps its bytes and the
\* bytes written are the content of one new backup file.
SizeTriggeredRotation ==
    \A c \in Succeeded("Write") :
        ( /\ pre.file # NoFile
          /\ FileSize(pre.files, pre.file) + Len(c.arg) >= get_max_size )
        => /\ files[pre.file] = pre.files[pre.file]
           /\ DOMAIN files = DOMAIN pre.files \cup {c.name}
           /\ c.name \notin DOMAIN pre.files
           /\ files[c.name] = c.arg

\* C2: no backup file is ever larger than the maximum size.
SizeBound ==
    \A f \in DOMAIN files : FileSize(files, f) <= get_max_size

\* C3: a Write of more than the maximum size returns (0, size exceeded) and
\* leaves the directory, the link, the handle and the size counter as they were.
OversizedWriteRejected ==
    \A c \in Returned("Write") :
        Len(c.arg) > get_max_size
        => /\ c.n = 0
           /\ c.err = SizeExceeded
           /\ Cur = pre

\* C3 witness: an oversized Write has returned on a Logger whose handle is open
OversizedWriteSeen ==
    \E c \in Returned("Write") :
        /\ Len(c.arg) > get_max_size
        /\ pre.file # NoFile

\* C4: after a successful Write or Rotate the destination is a link to the
\* backup file the handle is open on.
DestinationFollowsHandle ==
    \A c \in Succeeded("Write") \cup Succeeded("Rotate") :
        file # NoFile /\ dest = file

TimeBucketedTargets ==
    \A c \in Succeeded("Write") :
        last.time # NoTime
        => /\ Bucket(c.time) = Bucket(last.time)
                => c.name.stamp = last.name.stamp
           /\ Bucket(c.time) # Bucket(last.time)
                => c.name # last.name

\* C7: at most one call of Write, Rotate or Close is in progress, and only
\* while the mutex is locked; a Write that returns has put its bytes, whole
\* and in one piece, at the end of one file and has changed no other file.
MutualExclusion ==
    /\ Len(calls) <= 1
    /\ mu <=> Len(calls) = 1
    /\ \A c \in Succeeded("Write") :
        \E f \in DOMAIN files :
            /\ files[f] \in {Before(f) \o c.arg, c.arg}
            /\ \A g \in DOMAIN files \ {f} : files[g] = Before(g)

\* C7 witness: a Write is about to write its bytes while another call can
\* still be made
WriteInProgress ==
    \E i \in DOMAIN calls :
        /\ calls[i].pc = "write"
        /\ ncalls < MaxCalls

\* C8: a backup file older than another backup file is never changed again,
\* and the step that moves the handle into a bucket newer than every backup
\* file creates that one file and nothing else.
EarlierBackupsFrozen ==
    [][ /\ \A f \in DOMAIN files :
            (\E g \in DOMAIN files : StampTime(g.stamp) > StampTime(f.stamp))
            => (f \in DOMAIN files' /\ files'[f] = files[f])
        /\ ( /\ file' # NoFile
             /\ DOMAIN files # {}
             /\ \A g \in DOMAIN files : StampTime(g.stamp) < StampTime(file'.stamp) )
           => /\ DOMAIN files' = DOMAIN files \cup {file'}
              /\ \A f \in DOMAIN files : files'[f] = files[f] ]_vars

\* C8 witness: the Logger has written to a file of one bucket and then to a
\* file of a later bucket
TwoBucketsWritten ==
    \E f, g \in DOMAIN files :
        /\ StampTime(f.stamp) < StampTime(g.stamp)
        /\ LoggerBytes(files[f]) /\ LoggerBytes(files[g])

\* C9: no handle before the first call; a handle after every successful Write
\* or Rotate; none after Close; and whenever the mutex is free a Rotate or a
\* Write of any permitted length succeeds and leaves a handle.
WriterLifecycle ==
    /\ ncalls = 0 => file = NoFile
    /\ Succeeded("Write") \cup Succeeded("Rotate") # {} => file # NoFile
    /\ Returned("Close") # {} => file = NoFile
    /\ ~mu =>
        /\ LET r == rotate(Cur, clock, NoFault) IN
               r.err = Nil /\ r.file # NoFile
        /\ \A p \in Payloads :
            Len(p) <= get_max_size
            => LET w == writeOpen(Cur, clock, p, NoFault) IN
                  w.err = Nil /\ w.file # NoFile

\* C9 witness: a Write succeeds on a Logger that has written before and has
\* lost its handle since
WriteAfterCloseSeen ==
    /\ Succeeded("Write") # {}
    /\ pre.file = NoFile
    /\ \E f \in DOMAIN pre.files : LoggerBytes(pre.files[f])

\* C10: Close without a handle returns nil and changes nothing, and closing
\* twice leaves what closing once leaves: no handle, the directory as it was.
CloseIdempotent ==
    /\ \A c \in Returned("Close") :
        pre.file = NoFile => (c.err = Nil /\ Cur = pre)
    /\ \A F, G \in CloseFaults :
        LET once == close(Cur, F) IN
          /\ close(once, G) = Failed(once, Nil)
          /\ once.file = NoFile
          /\ once.files = files /\ once.dest = dest

\* C10 witness: Close has returned on a Logger that has written and had no
\* handle left to close
SecondCloseSeen ==
    /\ Returned("Close") # {}
    /\ pre.file = NoFile
    /\ \E f \in DOMAIN files : LoggerBytes(files[f])

\* the latest and the one but latest call of the history
Latest == hist[Len(hist)]

Earlier == hist[Len(hist) - 1]

\* C11: when a Write of a, a Close and a Write of b follow one another with
\* the clock in one bucket, and the file a went to then holds less than the
\* maximum with b added, the second Write goes to that same file, no file is
\* created, and the destination resolves to that file, which holds what it
\* held before a, then a, then b.
ReopenAfterCloseAppends ==
    \A c \in Succeeded("Write") :
        ( /\ Len(hist) >= 2
          /\ Latest.op = "Close"
          /\ Earlier.op = "Write" /\ Earlier.err = Nil
          /\ timestamp(Earlier.time) = timestamp(c.time)
          /\ Len(Earlier.was) + Len(Earlier.arg) + Len(c.arg) < get_max_size )
        => /\ c.name = Earlier.name
           /\ DOMAIN files = DOMAIN pre.files
           /\ dest = c.name
           /\ files[c.name] = Earlier.was \o Earlier.arg \o c.arg

InBucket(fs, t) == {f \in DOMAIN fs : f.stamp = timeFormat(Bucket(t))}

\* C13: a Rotate made when no backup file of the bucket of the clock reading
\* exists closes the handle, creates one empty backup file, that of this
\* bucket, changes no other file and leaves the destination resolving to the
\* new file; a Write that follows at the same clock reading appends to the
\* file the Rotate opened.
RotateInNewBucket ==
    /\ \A c \in Succeeded("Rotate") :
          InBucket(pre.files, c.time) = {}
          => /\ file \notin DOMAIN pre.files
             /\ file.stamp = timeFormat(Bucket(c.time))
             /\ files = Created(pre.files, file)
             /\ dest = file
             /\ nopen = IF pre.file = NoFile THEN pre.nopen + 1 ELSE pre.nopen
    /\ \A c \in Succeeded("Write") :
          ( /\ Len(hist) >= 1
            /\ Latest.op = "Rotate" /\ Latest.err = Nil
            /\ Latest.time = c.time
            /\ pre.file \in DOMAIN pre.files /\ pre.files[pre.file] = <<>> )
          => /\ c.name = pre.file
             /\ files[c.name] = c.arg
             /\ dest = c.name

\* C14: a Write that has come to write its bytes returns the number of
\* bytes that reached the file, with an error when they are not all of its
\* bytes; the size counter has grown by that number, and so is the size of
\* the file; the Write returns all of its length and no error only when all
\* the bytes are in the file.
IOFailureReported ==
    \A c \in Returned("Write") :
        c.name # NoFile
        => LET reached == Len(files[c.name]) - Len(Before(c.name)) IN
           /\ c.n = reached
           /\ reached < Len(c.arg) => c.err # Nil
           /\ size = FileSize(files, c.name)
           /\ (c.n = Len(c.arg) /\ c.err = Nil)
                => files[c.name] = Before(c.name) \o c.arg

\* C15: a Write whose backup file exists with room and cannot be opened for
\* append does not fail at its opening: the Logger then holds a file that
\* did not exist before, created empty.
AppendOpenFallback ==
    \A p \in Payloads :
        LET name == processName(files, clock, Len(p), NoFault)
            s    == writeOpen(Cur, clock, p, "open_append")
        IN ( /\ ~mu
             /\ Len(p) <= get_max_size
             /\ Exists(files, name)
             /\ FileSize(files, name) + Len(p) < get_max_size )
           => /\ s.err = Nil
              /\ s.file \notin DOMAIN files
              /\ s.file \in DOMAIN s.files
              /\ s.files[s.file] = <<>>

\* C16: the timestamp in the name of the file a successful Write or Rotate
\* has opened is the greatest midnight + k * window that is not after the
\* clock reading of the call, so that a reading on a boundary gives the
\* bucket that starts there.
BucketComputation ==
    /\ \A c \in Succeeded("Write") :
          c.name # NoFile => c.name.stamp = timeFormat(Bucket(c.time))
    /\ \A c \in Succeeded("Rotate") :
          file.stamp = timeFormat(Bucket(c.time))

\* C17: in every state of the directory and for every pending length w,
\* processName(w) returns a name, which does not exist or exists with room
\* for w; it is the name without a counter unless that file exists and its
\* size plus w reaches or exceeds the maximum, and then it is the name with
\* the least counter from 2 on whose file does not exist or has room.
NameGeneration ==
    \A w \in 0..(get_max_size + 1), F \in {NoFault, "stat_name", "stat_alt"} :
        LET name    == processName(files, clock, w, F)
            base    == Name(timestamp(clock), 1)
            full(f) == Exists(files, f) /\ FileSize(files, f) + w >= get_max_size
        IN /\ name # PanicName
           /\ ~full(name)
           /\ IF full(base)
              THEN /\ name.stamp = base.stamp
                   /\ name.idx >= 2
                   /\ \A n \in 2..(name.idx - 1) : full(Name(base.stamp, n))
              ELSE name = base

\* C18: a Write for which processName selects a file that exists, and whose
\* bytes added to the size of that file reach or exceed the maximum, leaves
\* that file as it was: the Logger has closed it and the bytes are in a file
\* opened by the rotation, another one.
ExactFillRotates ==
    \A c \in Succeeded("Write") :
        LET name == processName(pre.files, c.time, Len(c.arg), NoFault) IN
        ( /\ Exists(pre.files, name)
          /\ FileSize(pre.files, name) + Len(c.arg) >= get_max_size )
        => /\ files[name] = pre.files[name]
           /\ c.name # name
           /\ files[c.name] = Before(c.name) \o c.arg

\* the errors openNew returns
OpenNewErrors ==
    {"can't make directories for new logfile", "can't open existing logfile",
     "can't open new logfile", "can't unlink",
     "can't create symbolic link to new logfile"}

\* C19: a Write or a Rotate that returns an error of openNew leaves the
\* Logger without a handle, and an openNew that fails leaves the size counter
\* as it was.
FailedOpenNewAssignsNothing ==
    /\ \A c \in Returned("Write") \cup Returned("Rotate") :
          c.err \in OpenNewErrors => file = NoFile
    /\ \A F \in Faults :
          LET s == openNew(Cur, clock, F) IN
          s.err \in OpenNewErrors => s.size = size

\* the error of openExistingOrNew for a failed os_Stat
StatError == "error getting log file info"

\* C20: a Write during which os_Stat of a candidate name fails otherwise than
\* with "does not exist" (the name without a counter, a name with a counter
\* when those are searched, or the name selected) returns StatError and has
\* changed nothing; no Write ends in a panic.
StatFailureIsError ==
    /\ \A p \in Payloads, F \in {"stat_name", "stat_alt", "stat_target"} :
          LET base == Name(timestamp(clock), 1)
              s    == writeOpen(Cur, clock, p, F)
          IN ( /\ ~mu
               /\ Len(p) <= get_max_size
               /\ F = "stat_alt" => /\ Exists(files, base)
                                    /\ FileSize(files, base) + Len(p) > get_max_size )
             => s = Failed(Cur, StatError)
    /\ \A c \in Returned("Write") : c.err # Panic

\* the backup files of fs that carry the timestamp processName gives at t
SameStamp(fs, t) == {f \in DOMAIN fs : f.stamp = timestamp(t)}

\* C21: the search that processName makes for a Write of w bytes or for a
\* Rotate (w = 0), in the directory the call found, ends with a name and
\* never with an error, and no error is returned by the call; the counter of the name is not bounded by a
\* constant: it is at most one more than the number of files of the bucket,
\* every name with a lesser counter being that of a file that w would make
\* exceed the maximum.
CollisionSearchEnds ==
    \A c \in Returned("Write") \cup Returned("Rotate") :
        Len(c.arg) <= get_max_size =>
        LET name == processName(pre.files, c.time, Len(c.arg), NoFault) IN
        /\ c.err = Nil
        /\ name # PanicName
        /\ name.stamp = timestamp(c.time)
        /\ name.idx \in 1..(Cardinality(SameStamp(pre.files, c.time)) + 1)
        /\ \A n \in 1..(name.idx - 1) :
              /\ Exists(pre.files, Name(name.stamp, n))
              /\ FileSize(pre.files, Name(name.stamp, n)) + Len(c.arg) > get_max_size

\* C21 witness: the search of a Write has given a counter past SearchLimit
SearchPastLimitSeen ==
    \E c \in Succeeded("Write") :
        processName(pre.files, c.time, Len(c.arg), NoFault).idx > SearchLimit

\* C21 as stated: the search has an upper bound on the counter, so that it
\* never gives a Write or a Rotate a name with a counter past SearchLimit.
BoundedCollisionSearch ==
    \A c \in Returned("Write") \cup Returned("Rotate") :
        Len(c.arg) <= get_max_size =>
        processName(pre.files, c.time, Len(c.arg), NoFault).idx <= SearchLimit

\* C22: the size counter is not the number of bytes written through the
\* handle: after a successful Write it is the size the file of the handle had
\* when the call found it plus the count the Write returns, and after a
\* successful Rotate it is the size the file of the handle had, 0 for a file
\* that Rotate created.
SizeCounterMeaning ==
    /\ \A c \in Succeeded("Write") :
          /\ file = c.name
          /\ size = Len(Before(c.name)) + c.n
    /\ \A c \in Succeeded("Rotate") :
          size = Len(Before(file))

\* C22 witness: a Write has returned from a file that held bytes when the
\* handle was opened, with room for the bytes of the Write
AdoptedSizeSeen ==
    \E c \in Succeeded("Write") :
        /\ Before(c.name) # <<>>
        /\ Len(Before(c.name)) + Len(c.arg) < get_max_size

\* C22 as stated: the size counter is the number of bytes written through the
\* handle since it was opened, which each Write and Rotate does anew.
SizeCountsHandleBytes ==
    /\ \A c \in Succeeded("Write") : size = c.n
    /\ \A c \in Succeeded("Rotate") : size = 0

\* C23: the window in effect is positive, the fixed default when the
\* configured window is zero or negative, and the timestamp in the name of
\* the file a successful Write or Rotate has opened is the one the bucket
\* loop gives, started at midnight and stepped by the window in effect.
DefaultsKeepBucketing ==
    /\ get_rotation_time > 0
    /\ l_RotationTime <= 0 => get_rotation_time = defaultRotationTime
    /\ \A c \in Succeeded("Write") \cup Succeeded("Rotate") :
          file # NoFile
          => file.stamp = timeFormat(rotation_loop(base_datetime(c.time), c.time))

\* C23 witness: a Logger configured with no positive window has opened a
\* file at a time that is not the start of its bucket
DefaultWindowSeen ==
    \E c \in Succeeded("Write") \cup Succeeded("Rotate") :
        /\ l_RotationTime <= 0
        /\ file # NoFile
        /\ file.stamp # timeFormat(c.time)

LinkReplacementOrder ==
    /\ \A c \in Returned("Rotate") :
          LET name   == processName(pre.files, c.time, 0, NoFault)
              opened == IF Exists(pre.files, name) THEN pre.files
                                                   ELSE Created(pre.files, name)
          IN /\ c.err \in {"can't open existing logfile", "can't open new logfile"}
                  => files = pre.files /\ dest = pre.dest /\ file = NoFile
             /\ c.err = "can't unlink"
                  => /\ files = opened
                     /\ dest = pre.dest /\ dest # NoEntry
                     /\ file = NoFile
             /\ c.err = "can't create symbolic link to new logfile"
                  => files = opened /\ dest = NoEntry /\ file = NoFile
             /\ c.err = Nil
                  => /\ files \in {opened, Created(pre.files, name)}
                     /\ dest = name /\ file = name
    /\ \A c \in Returned("Write") :
          c.err = "can't create symbolic link to new logfile"
          => dest = NoEntry /\ files # NoFiles

\* C25 witness: a Rotate has returned the error of the link after it created
\* the backup file and removed the entry that was at the destination path
LinkFailedAfterRemovalSeen ==
    \E c \in Returned("Rotate") :
        /\ c.err = "can't create symbolic link to new logfile"
        /\ pre.dest # NoEntry
        /\ dest = NoEntry
        /\ DOMAIN files # DOMAIN pre.files

\* C26: the handles the Logger has opened and not closed are the one it
\* holds, if it holds one: at most one is open, and none once the handle has
\* been closed.
NoHandleDroppedOpen ==
    nopen = IF file = NoFile THEN 0 ELSE 1

\* C27: whenever the Logger holds a handle and no write of bytes has failed,
\* the size counter is the size on disk of the file the handle is open on.
SizeTracksFile ==
    file # NoFile => file \in DOMAIN files /\ size = FileSize(files, file)

\* C27 witness: a Write has returned after adding its bytes to a file that
\* held bytes when it was opened
GrownAdoptedSizeSeen ==
    \E c \in Succeeded("Write") :
        /\ file = c.name
        /\ Before(file) # <<>>
        /\ c.n > 0
        /\ FileSize(files, file) = Len(Before(file)) + c.n

\* C28: a call that leaves, with or without an error, leaves the mutex
\* unlocked, and whenever the mutex is locked it is unlocked later: every
\* call comes to its return and frees the lock.
EveryCallEndsAndUnlocks ==
    /\ [][Len(calls') < Len(calls) => ~mu']_vars
    /\ mu ~> ~mu

\* C28 witness: a Write is at its return with the panic of processName, the
\* mutex still locked
PanicAtReturnSeen ==
    \E c \in Returned("Write") : c.err = Panic /\ mu

\* C29: the symbolic link openNew has made at the destination path, its text
\* taken from the directory of the link when it is relative, resolves to
\* the backup file openNew opened, whose path is that text taken from the
\* working directory.
LinkTargetValid ==
    link # NoLink => Resolve(get_filename, link) = link

\* C30: when a request is served while the loaded list of credentials is
\* not empty, the wrapped handler is invoked only for a request with Basic
\* credentials that match an entry of the list, and every other request is
\* answered 401, whatever the order of Load and ValidateMiddleware was.
AuthenticationGate ==
    (resp # NoResp /\ resp.listed) =>
        /\ resp.next => resp.matched
        /\ ~resp.matched => resp.status = StatusUnauthorized

\* C31: a Load that returns an error leaves what GetAppConfig and
\* GetHTTPConfig return as it was before the call; the two are replaced
\* only by a Load that succeeds, which replaces the one and then the other
\* before it returns.
FailedLoadChangesNothing ==
    [][/\ loadErr' # Nil =>
            (GetAppConfig' = GetAppConfig /\ GetHTTPConfig' = GetHTTPConfig)
       /\ GetAppConfig' # GetAppConfig =>
            (~tmp.held /\ tmp'.held /\ loadErr' = Nil)
       /\ GetHTTPConfig' # GetHTTPConfig =>
            (tmp.held /\ ~tmp'.held /\ loadErr = Nil)
       /\ (tmp.held /\ tmp' # tmp) =>
            /\ ~tmp'.held
            /\ GetHTTPConfig' = [Address |-> TrimSpace(tmp.Address),
                                 FileServerDirectory |->
                                     TrimSpace(tmp.FileServerDirectory),
                                 Authen |-> tmp.Authen]
            /\ GetAppConfig' = GetAppConfig
      ]_vars

\* a Load has failed on the directory of [http], its last check, while a
\* configuration was loaded
FailedReloadSeen ==
    /\ loadErr = ErrDir
    /\ ~tmp.held
    /\ GetHTTPConfig.FileServerDirectory # <<>>
    /\ GetAppConfig # NoAppConfig

====
